---- MODULE Spec2Model ----
(***************************************************************************)
(* Model of Coffee.py: the asynchronous query runner fetch_places_async,   *)
(* the detail resolver (fetch_page + extract_details_from_html), and the   *)
(* exporter save_to_excel.                                                 *)
(*                                                                         *)
(* Python strings that the program computes on (page bodies, "Details")    *)
(* are sequences of tokens; strings that it only copies (city, place type, *)
(* title, snippet, link) are TLA+ strings.                                 *)
(***************************************************************************)
EXTENDS Integers, Sequences, FiniteSets, TLC

\* ---------------------------------------------------------------- bounds
MaxPlaces == 2      \* longest place_types list submitted
MaxRecords == 3     \* organic result entries the search API returns over one run
MaxMarkupLen == 3   \* longest markup handed to the extractor on its own
MaxLimit == 4       \* largest char_limit handed to the extractor on its own

\* ------------------------------------------------------ program constants
CITY == "Lahore"
DELAY_BETWEEN_QUERIES == 1
DefaultCharLimit == 600

\* ------------------------------------------------------------ Python data
PyNone == <<"None">>            \* the value None of a "Details" cell
NA == <<"N", "/", "A">>         \* the string "N/A" as characters
EmptyStr == <<>>                \* the string ""

Tag == "<t>"                    \* one markup tag (an element boundary)
Space == " "
Tokens == {Tag, Space, "a", "b"}

Columns == {"City", "Place Type", "Name", "Description", "Details", "Link", "Fetched On"}

PlaceNames == <<"coffee shops", "tea houses", "bakeries", "juice bars">>

EmptyDict == [k \in {} |-> ""]

\* dict.get(key, default)
Get(d, key, default) == IF key \in DOMAIN d THEN d[key] ELSE default

\* a JSON value found in "organic_results": an object, or anything else
Obj(items) == [isdict |-> TRUE, items |-> items]
NonObj == [isdict |-> FALSE, items |-> EmptyDict]

Links == {"L1", "L2"}

Entries ==
    { Obj(("title" :> "A") @@ ("snippet" :> "sa") @@ ("link" :> "L1")),
      Obj(("title" :> "B") @@ ("link" :> "L2")),
      Obj(EmptyDict),
      NonObj }

SeqsUpTo(S, n) == UNION {[1..m -> S] : m \in 0..n}

\* the JSON bodies of a successful search response holding at most n entries
JsonBodies(n) == {EmptyDict} \cup {("organic_results" :> s) : s \in SeqsUpTo(Entries, n)}

\* what a GET of a page yields: a failure, or a body
PageFail == [ok |-> FALSE, body |-> EmptyStr]
PageBody == ("L1" :> <<Tag, "a">>) @@ ("L2" :> <<"b", Space>>)
PageOutcomes(link) == {PageFail, [ok |-> TRUE, body |-> PageBody[link]]}
Webs == {w \in [Links -> {PageFail} \cup {[ok |-> TRUE, body |-> PageBody[l]] : l \in Links}] :
            \A l \in Links : w[l] \in PageOutcomes(l)}

\* ------------------------------------------------ extract_details_from_html
\* the text nodes of a markup: the runs of tokens between tags
RECURSIVE TextNodes(_)
TextNodes(html) ==
    IF html = <<>> THEN << <<>> >>
    ELSE LET rest == TextNodes(Tail(html))
         IN  IF Head(html) = Tag
             THEN << <<>> >> \o rest
             ELSE << <<Head(html)>> \o Head(rest) >> \o Tail(rest)

RECURSIVE LStrip(_)
LStrip(s) == IF s # <<>> /\ Head(s) = Space THEN LStrip(Tail(s)) ELSE s

RECURSIVE RStrip(_)
RStrip(s) ==
    IF s # <<>> /\ s[Len(s)] = Space THEN RStrip(SubSeq(s, 1, Len(s) - 1)) ELSE s

Strip(s) == RStrip(LStrip(s))

\* soup.stripped_strings: every text node stripped, the empty ones dropped
StrippedStrings(html) ==
    LET nodes == TextNodes(html)
        stripped == [i \in 1..Len(nodes) |-> Strip(nodes[i])]
    IN  SelectSeq(stripped, LAMBDA n : n # <<>>)

\* " ".join(strs)
RECURSIVE Join(_)
Join(strs) ==
    IF strs = <<>> THEN <<>>
    ELSE IF Len(strs) = 1 THEN strs[1]
    ELSE strs[1] \o <<Space>> \o Join(Tail(strs))

\* a slice that cuts nothing off
SliceNothing(text, n) == text

\* text[:n], negative n counting from the end
SlicePrefix(text, n) ==
    IF n >= 0
    THEN SubSeq(text, 1, IF n < Len(text) THEN n ELSE Len(text))
    ELSE SubSeq(text, 1, IF Len(text) + n > 0 THEN Len(text) + n ELSE 0)

extract_details_from_html(html, char_limit) ==
    IF html = EmptyStr THEN NA
    ELSE SlicePrefix(Join(StrippedStrings(html)), char_limit)

\* ------------------------------------------------------------------ state
VARIABLES
    place_types,   \* the place_types argument of fetch_places_async
    pages,         \* the web: what a GET of each link yields
    pc,            \* where the main coroutine (and then __main__) stands
    idx,           \* how many entries of place_types the for loop has taken
    responses,     \* the search API's response to each call so far
    all_data,      \* the running list of records
    tasks,         \* the detail resolvers of the current batch, in launch order
    now,           \* the clock datetime.now() reads
    session_open,  \* the aiohttp.ClientSession is inside its async with
    api_calls,     \* place types the search API was called for, in call order
    error_log,     \* place types logged by logging.error, in order
    warn_log,      \* links logged by logging.warning
    merged,        \* place types whose merge loop has run
    slept,         \* place types whose asyncio.sleep has elapsed
    file_rows,     \* the rows of the output file
    file_writes,   \* how many times the output file was written
    page_gets,     \* how many GETs of pages the resolvers have made
    xHtml, xLimit, xOut   \* one call of extract_details_from_html on its own

vars == <<place_types, pages, pc, idx, responses, all_data, tasks, now,
          session_open, api_calls, error_log, warn_log, merged, slept,
          file_rows, file_writes, page_gets, xHtml, xLimit, xOut>>

xVars == <<xHtml, xLimit, xOut>>

\* ------------------------------------------------------------ fetch_page
\* a fetch_page whose except clause is missing: the failure is raised
fetch_page_raising(link) ==
    IF link \notin Links \/ ~pages[link].ok
    THEN [raised |-> TRUE, text |-> EmptyStr, warned |-> FALSE, gets |-> 1, returns |-> TRUE]
    ELSE [raised |-> FALSE, text |-> pages[link].body, warned |-> FALSE,
          gets |-> 1, returns |-> TRUE]

\* a fetch_page that tries a failed GET a second time
fetch_page_retrying(link) ==
    IF link \notin Links \/ ~pages[link].ok
    THEN [raised |-> FALSE, text |-> EmptyStr, warned |-> TRUE, gets |-> 2, returns |-> TRUE]
    ELSE [raised |-> FALSE, text |-> pages[link].body, warned |-> FALSE,
          gets |-> 1, returns |-> TRUE]

\* a fetch_page without timeout=10: a GET that gets no answer never returns
fetch_page_no_timeout(link) ==
    IF link \notin Links \/ ~pages[link].ok
    THEN [raised |-> FALSE, text |-> EmptyStr, warned |-> TRUE, gets |-> 1, returns |-> FALSE]
    ELSE [raised |-> FALSE, text |-> pages[link].body, warned |-> FALSE,
          gets |-> 1, returns |-> TRUE]

\* session.get(url) fails on "" (no URL at all) and on whatever the web fails on;
\* every failure is caught and turned into "".  One GET is made, and with
\* timeout=10 the call returns whatever the web does.
fetch_page(link) ==
    IF link \notin Links \/ ~pages[link].ok
    THEN [raised |-> FALSE, text |-> EmptyStr, warned |-> TRUE, gets |-> 1, returns |-> TRUE]
    ELSE [raised |-> FALSE, text |-> pages[link].body, warned |-> FALSE,
          gets |-> 1, returns |-> TRUE]

extract_place_details(link) ==
    LET page == fetch_page(link)
    IN  IF page.raised
        THEN [raised |-> TRUE, value |-> PyNone, warned |-> page.warned,
              gets |-> page.gets, returns |-> page.returns]
        ELSE [raised |-> FALSE,
              value |-> extract_details_from_html(page.text, DefaultCharLimit),
              warned |-> page.warned, gets |-> page.gets, returns |-> page.returns]

\* ------------------------------------------------- fetch_places_async, parts
\* the record appended for one organic result
MakeRecord(city, place, result, t) ==
    ("City" :> city) @@ ("Place Type" :> place)
    @@ ("Name" :> Get(result, "title", "N/A"))
    @@ ("Description" :> Get(result, "snippet", "N/A"))
    @@ ("Details" :> PyNone)
    @@ ("Link" :> Get(result, "link", ""))
    @@ ("Fetched On" :> t)

\* the coroutine extract_place_details(session, link), not yet scheduled
MakeTask(place, link) ==
    [place |-> place, link |-> link, status |-> "created",
     raised |-> FALSE, result |-> PyNone, finished |-> 0, gets |-> 0]

\* a loop that launches a resolver only for a result that has a link
LaunchTasksSkipEmpty(p, entries, n) ==
    SelectSeq([i \in 1..n |-> MakeTask(p, Get(entries[i].items, "link", ""))],
              LAMBDA t : t.link # "")

\* tasks.append(extract_place_details(session, link)), once per result handled
LaunchTasks(p, entries, n) ==
    [i \in 1..n |-> MakeTask(p, Get(entries[i].items, "link", ""))]

\* how many entries the for loop handles before result.get raises on a
\* value that is no object
ParsedCount(entries) ==
    IF \E i \in 1..Len(entries) : ~entries[i].isdict
    THEN (CHOOSE i \in 1..Len(entries) :
             /\ ~entries[i].isdict
             /\ \A j \in 1..(i - 1) : entries[j].isdict) - 1
    ELSE Len(entries)

\* records put at the front of the list instead of its end
PrependAll(data, recs) == recs \o data

\* all_data.append(...) for each record of the batch
AppendAll(data, recs) == data \o recs

\* a wait that ends with the first resolver to finish
GatherReadyFirst(tks) == tks = <<>> \/ \E i \in 1..Len(tks) : tks[i].status = "done"

\* asyncio.gather(*tasks): waits for these
GatherReady(tks) == \A i \in 1..Len(tks) : tks[i].status = "done"

\* a gather that hands the results back in the order the tasks finished
GatherResultsByCompletion(tks) ==
    [i \in 1..Len(tks) |-> tks[CHOOSE j \in 1..Len(tks) : tks[j].finished = i].result]

\* asyncio.gather(*tasks): the results, in the order the tasks were passed
GatherResults(tks) == [i \in 1..Len(tks) |-> tks[i].result]

\* all_data[j] for a Python index j (negative: from the end), as a 1-based index
PyIndex(len, j) == (IF j < 0 THEN len + j ELSE j) + 1

\* a merge loop that indexes from the front: all_data[i]["Details"] = details
RECURSIVE MergeFromStart(_, _, _)
MergeFromStart(data, details, i) ==
    IF i >= Len(details) THEN data
    ELSE MergeFromStart(
            [data EXCEPT ![PyIndex(Len(data), i)] =
                [@ EXCEPT !["Details"] = details[i + 1]]],
            details, i + 1)

\* for i, details in enumerate(details_results):
\*     all_data[-len(details_results) + i]["Details"] = details
RECURSIVE MergeFrom(_, _, _)
MergeFrom(data, details, i) ==
    IF i >= Len(details) THEN data
    ELSE MergeFrom(
            [data EXCEPT ![PyIndex(Len(data), i - Len(details))] =
                [@ EXCEPT !["Details"] = details[i + 1]]],
            details, i + 1)

MergeDetails(data, details) == MergeFrom(data, details, 0)

\* a merge that goes straight on to the next place type
PcAfterMergeNoSleep == "loop"

\* where the coroutine stands once the merge loop is over
PcAfterMerge == "sleep"

\* an except handler followed by the delay, as if the sleep stood after the try
PcAfterErrorSleep == "sleep"

\* where the coroutine stands once the except handler has run
PcAfterError == "loop"

\* an except handler that throws the collected records away
DataAfterErrorCleared(data) == <<>>

\* all_data once the except handler has run
DataAfterError(data) == data

\* an exporter that writes whatever it is given
ShouldWriteAlways(data) == TRUE

\* if data:
ShouldWrite(data) == data # <<>>

\* pd.DataFrame(data).to_excel(...): one row per record, one column per key
ToRows(data) == data

NumDone(tks) == Cardinality({i \in 1..Len(tks) : tks[i].status = "done"})

UsedEntries ==
    LET RECURSIVE Sum(_)
        Sum(i) == IF i = 0 THEN 0
                  ELSE Len(Get(responses[i].body, "organic_results", <<>>)) + Sum(i - 1)
    IN  Sum(Len(responses))

place == place_types[idx]

\* ------------------------------------------------------------------- Init
Init ==
    /\ place_types \in {SubSeq(PlaceNames, 1, n) : n \in 0..MaxPlaces}
    /\ pages \in Webs
    /\ pc = "loop"
    /\ idx = 0
    /\ responses = <<>>
    /\ all_data = <<>>
    /\ tasks = <<>>
    /\ now = 0
    /\ session_open = TRUE
    /\ api_calls = <<>>
    /\ error_log = <<>>
    /\ warn_log = {}
    /\ merged = {}
    /\ slept = {}
    /\ file_rows = <<>>
    /\ file_writes = 0
    /\ page_gets = 0
    /\ xHtml = EmptyStr /\ xLimit = 0 /\ xOut = PyNone

\* ---------------------------------------------------------------- actions
\* for place in place_types: ... session.get("https://serpapi.com/search")
NextPlace ==
    /\ pc = "loop"
    /\ idx < Len(place_types)
    /\ idx' = idx + 1
    /\ api_calls' = Append(api_calls, place_types[idx + 1])
    /\ pc' = "search"
    /\ UNCHANGED <<place_types, pages, responses, all_data, tasks, now, session_open,
                   error_log, warn_log, merged, slept, file_rows, file_writes,
                   page_gets>>
    /\ UNCHANGED xVars

\* the search call fails (connection error, raise_for_status, resp.json()):
\* the except handler logs it
SearchFail ==
    /\ pc = "search"
    /\ responses' = Append(responses, [ok |-> FALSE, body |-> EmptyDict])
    /\ error_log' = Append(error_log, place)
    /\ all_data' = DataAfterError(all_data)
    /\ pc' = PcAfterError
    /\ UNCHANGED <<place_types, pages, idx, tasks, now, session_open, api_calls,
                   warn_log, merged, slept, file_rows, file_writes,
                   page_gets>>
    /\ UNCHANGED xVars

\* the search call answers with a JSON body: the for loop over its organic
\* results appends the records and creates the resolvers, up to
\* asyncio.gather, or up to the entry on which result.get raises
SearchOk ==
    /\ pc = "search"
    /\ \E body \in JsonBodies(MaxRecords - UsedEntries) :
        LET entries == Get(body, "organic_results", <<>>)
            n == ParsedCount(entries)
            recs == [i \in 1..n |-> MakeRecord(CITY, place, entries[i].items, now)]
            tks == LaunchTasks(place, entries, n)
        IN  /\ responses' = Append(responses, [ok |-> TRUE, body |-> body])
            /\ IF n < Len(entries)
               THEN /\ all_data' = DataAfterError(AppendAll(all_data, recs))
                    /\ tasks' = tks
                    /\ error_log' = Append(error_log, place)
                    /\ pc' = PcAfterError
               ELSE /\ all_data' = AppendAll(all_data, recs)
                    /\ tasks' = [i \in 1..Len(tks) |-> [tks[i] EXCEPT !.status = "pending"]]
                    /\ error_log' = error_log
                    /\ pc' = "gather"
    /\ UNCHANGED <<place_types, pages, idx, now, session_open, api_calls,
                   warn_log, merged, slept, file_rows, file_writes,
                   page_gets>>
    /\ UNCHANGED xVars

\* one resolver of the batch runs to its end: fetch_page, then the extractor
FetchComplete(i) ==
    /\ pc = "gather"
    /\ tasks[i].status = "pending"
    /\ LET r == extract_place_details(tasks[i].link)
       IN  /\ r.returns
           /\ tasks' = [tasks EXCEPT ![i] =
                          [@ EXCEPT !.status = "done", !.raised = r.raised,
                                    !.result = r.value,
                                    !.finished = NumDone(tasks) + 1,
                                    !.gets = @ + r.gets]]
           /\ page_gets' = page_gets + r.gets
           /\ warn_log' = IF r.warned THEN warn_log \cup {tasks[i].link} ELSE warn_log
    /\ UNCHANGED <<place_types, pages, pc, idx, responses, all_data, now, session_open,
                   api_calls, error_log, merged, slept, file_rows, file_writes>>
    /\ UNCHANGED xVars

\* await asyncio.gather(*tasks) returns; the merge loop runs; asyncio.sleep
\* begins.  Were a resolver to raise, gather would raise it into the handler.
GatherDone ==
    /\ pc = "gather"
    /\ \/ GatherReady(tasks)
       \/ \E i \in 1..Len(tasks) : tasks[i].status = "done" /\ tasks[i].raised
    /\ IF \E i \in 1..Len(tasks) : tasks[i].status = "done" /\ tasks[i].raised
       THEN /\ error_log' = Append(error_log, place)
            /\ all_data' = DataAfterError(all_data)
            /\ merged' = merged
            /\ pc' = PcAfterError
       ELSE /\ all_data' = MergeDetails(all_data, GatherResults(tasks))
            /\ merged' = merged \cup {place}
            /\ error_log' = error_log
            /\ pc' = PcAfterMerge
    /\ UNCHANGED <<place_types, pages, idx, responses, tasks, now, session_open,
                   api_calls, warn_log, slept, file_rows, file_writes,
                   page_gets>>
    /\ UNCHANGED xVars

\* await asyncio.sleep(DELAY_BETWEEN_QUERIES) returns
SleepDone ==
    /\ pc = "sleep"
    /\ now' = now + DELAY_BETWEEN_QUERIES
    /\ slept' = slept \cup {place}
    /\ pc' = "loop"
    /\ UNCHANGED <<place_types, pages, idx, responses, all_data, tasks, session_open,
                   api_calls, error_log, warn_log, merged, file_rows, file_writes,
                   page_gets>>
    /\ UNCHANGED xVars

\* the for loop is exhausted: the session closes, return all_data
Return ==
    /\ pc = "loop"
    /\ idx = Len(place_types)
    /\ session_open' = FALSE
    /\ pc' = "returned"
    /\ UNCHANGED <<place_types, pages, idx, responses, all_data, tasks, now,
                   api_calls, error_log, warn_log, merged, slept, file_rows, file_writes,
                   page_gets>>
    /\ UNCHANGED xVars

\* save_to_excel(place_data, OUTPUT_FILE)
save_to_excel ==
    /\ pc = "returned"
    /\ IF ShouldWrite(all_data)
       THEN /\ file_rows' = ToRows(all_data)
            /\ file_writes' = file_writes + 1
       ELSE UNCHANGED <<file_rows, file_writes>>
    /\ pc' = "done"
    /\ UNCHANGED <<place_types, pages, idx, responses, all_data, tasks, now,
                   session_open, api_calls, error_log, warn_log, merged, slept,
                   page_gets>>
    /\ UNCHANGED xVars

Next ==
    \/ NextPlace
    \/ SearchFail
    \/ SearchOk
    \/ \E i \in 1..Len(tasks) : FetchComplete(i)
    \/ GatherDone
    \/ SleepDone
    \/ Return
    \/ save_to_excel

Spec == Init /\ [][Next]_vars

\* The event loop runs whatever is ready, and every HTTP operation and the
\* sleep come to an end: the search call answers or fails, a page GET answers,
\* fails or times out.
Fairness ==
    /\ WF_vars(NextPlace)
    /\ WF_vars(SearchFail \/ SearchOk)
    /\ WF_vars(\E i \in 1..Len(tasks) : FetchComplete(i))
    /\ WF_vars(GatherDone)
    /\ WF_vars(SleepDone)
    /\ WF_vars(Return)
    /\ WF_vars(save_to_excel)

SpecFair == Init /\ [][Next]_vars /\ Fairness

\* ------------------------------- extract_details_from_html taken on its own
Markups == SeqsUpTo(Tokens, MaxMarkupLen)
Limits == (0 - 1)..MaxLimit

InitExtract ==
    /\ xHtml \in Markups
    /\ xLimit \in Limits
    /\ xOut = PyNone
    /\ pc = "extract"
    /\ place_types = <<>> /\ pages = [l \in Links |-> PageFail]
    /\ idx = 0 /\ responses = <<>> /\ all_data = <<>> /\ tasks = <<>> /\ now = 0
    /\ session_open = FALSE /\ api_calls = <<>> /\ error_log = <<>> /\ warn_log = {}
    /\ merged = {} /\ slept = {} /\ file_rows = <<>> /\ file_writes = 0
    /\ page_gets = 0

ExtractCall ==
    /\ pc = "extract"
    /\ xOut' = extract_details_from_html(xHtml, xLimit)
    /\ pc' = "extracted"
    /\ UNCHANGED <<xHtml, xLimit>>
    /\ UNCHANGED <<place_types, pages, idx, responses, all_data, tasks, now,
                   session_open, api_calls, error_log, warn_log, merged, slept,
                   file_rows, file_writes, page_gets>>

NextExtract == ExtractCall

SpecExtract == InitExtract /\ [][NextExtract]_vars

\* ----------------------------------------------------- reference values
Returned == pc \in {"returned", "done"}

Errored(p) == \E i \in 1..Len(error_log) : error_log[i] = p

RespEntries(k) == Get(responses[k].body, "organic_results", <<>>)

\* what the resolver of a link returns, from the web alone
ExpectedDetails(link) ==
    IF link \in Links /\ pages[link].ok
    THEN extract_details_from_html(pages[link].body, DefaultCharLimit)
    ELSE NA

\* the records of place type p, as they stand in all_data
RecordsOf(p) == SelectSeq(all_data, LAMBDA r : r["Place Type"] = p)

\* a record without its timestamp
Content(r) == <<r["City"], r["Place Type"], r["Name"], r["Description"],
                r["Details"], r["Link"]>>

\* the merged batch that the k-th response alone calls for
ExpectedBatch(k) ==
    [i \in 1..Len(RespEntries(k)) |->
        LET e == RespEntries(k)[i].items
        IN  <<CITY, place_types[k], Get(e, "title", "N/A"), Get(e, "snippet", "N/A"),
              ExpectedDetails(Get(e, "link", "")), Get(e, "link", "")>>]

\* ---------------------------------------------------------------- claims
\* C1: positional merge.  Once the merge of a batch with N result entries has
\* run, the batch holds exactly N records and the i-th of them carries the
\* value returned by the i-th resolver launched, the one of its own Link,
\* whatever the order in which the resolvers finished.
PositionalMerge ==
    /\ pc = "sleep" =>
         LET n == Len(RespEntries(idx))
         IN  /\ Len(tasks) = n
             /\ Len(all_data) >= n
             /\ \A i \in 1..n :
                  LET r == all_data[Len(all_data) - n + i]
                  IN  /\ r["Place Type"] = place
                      /\ r["Link"] = tasks[i].link
                      /\ r["Details"] = tasks[i].result
                      /\ r["Details"] = ExpectedDetails(r["Link"])
    /\ \A k \in 1..Len(responses) :
         place_types[k] \in merged =>
           /\ Len(RecordsOf(place_types[k])) = Len(RespEntries(k))
           /\ \A i \in 1..Len(RespEntries(k)) :
                Content(RecordsOf(place_types[k])[i]) = ExpectedBatch(k)[i]

\* a batch merged after its later resolver finished first, with another value
PositionalMergeWitness ==
    /\ pc = "sleep"
    /\ Len(tasks) >= 2
    /\ tasks[1].finished > tasks[2].finished
    /\ tasks[1].result # tasks[2].result

\* C2: no partial batch.  A place type whose processing ended in the except
\* handler has no record in the list fetch_places_async returns.
NoPartialBatch ==
    Returned => \A i \in 1..Len(error_log) : RecordsOf(error_log[i]) = <<>>

\* C3: partial-failure isolation.  Every place type is processed whatever
\* fails, and the returned records of the place types that did not fail are
\* those their own responses call for, in order, as if the failing ones had
\* not been submitted.
RECURSIVE ExpectedOfSucceeding(_)
ExpectedOfSucceeding(k) ==
    IF k = 0 THEN <<>>
    ELSE ExpectedOfSucceeding(k - 1)
         \o (IF Errored(place_types[k]) THEN <<>> ELSE ExpectedBatch(k))

FailureIsolation ==
    Returned =>
      /\ api_calls = place_types
      /\ Len(responses) = Len(place_types)
      /\ LET kept == SelectSeq(all_data, LAMBDA r : ~Errored(r["Place Type"]))
         IN  [i \in 1..Len(kept) |-> Content(kept[i])]
               = ExpectedOfSucceeding(Len(place_types))

\* a failed place type followed by one whose records are returned
FailureIsolationWitness ==
    /\ pc = "returned"
    /\ Len(place_types) = 2
    /\ ~responses[1].ok
    /\ Len(RecordsOf(place_types[2])) >= 2
    /\ ~Errored(place_types[2])

\* C4 as stated: for every two consecutive place types, the search call of the
\* second does not begin before the merge of the first batch has run and the
\* delay after it has elapsed.
ThrottleOrderEveryPair ==
    \A k \in 1..(Len(api_calls) - 1) :
        api_calls[k] \in merged /\ api_calls[k] \in slept

\* C4, amended: for every two consecutive place types of which the first did
\* not end in the except handler, the search call of the second does not begin
\* before the merge of the first batch has run and the delay after it has
\* elapsed; the delay is DELAY_BETWEEN_QUERIES on the clock.
ThrottleOrder ==
    /\ \A k \in 1..(Len(api_calls) - 1) :
         ~Errored(api_calls[k]) => api_calls[k] \in merged /\ api_calls[k] \in slept
    /\ slept \subseteq merged
    /\ now = DELAY_BETWEEN_QUERIES * Cardinality(slept)

\* the second search call begun after the first batch was merged and slept on
ThrottleOrderWitness ==
    /\ pc = "search"
    /\ Len(api_calls) = 2
    /\ api_calls[1] \in slept
    /\ RecordsOf(api_calls[1]) # <<>>

\* C5: output order.  The list is the concatenation, in submission order, of
\* the records created for each place type, each batch in the order of the
\* organic results; neither the completion order of the resolvers nor a
\* failing place type reorders it.
CreatedFor(k) ==
    IF ~responses[k].ok THEN <<>>
    ELSE [i \in 1..ParsedCount(RespEntries(k)) |->
            LET e == RespEntries(k)[i].items
            IN  <<place_types[k], Get(e, "title", "N/A"), Get(e, "snippet", "N/A"),
                  Get(e, "link", "")>>]

RECURSIVE CreatedUpTo(_)
CreatedUpTo(k) == IF k = 0 THEN <<>> ELSE CreatedUpTo(k - 1) \o CreatedFor(k)

OutputOrder ==
    [i \in 1..Len(all_data) |->
        <<all_data[i]["Place Type"], all_data[i]["Name"],
          all_data[i]["Description"], all_data[i]["Link"]>>]
      = CreatedUpTo(Len(responses))

\* two batches returned, the first one resolved out of launch order
OutputOrderWitness ==
    /\ pc = "returned"
    /\ Len(place_types) = 2
    /\ Len(RecordsOf(place_types[1])) >= 2
    /\ RecordsOf(place_types[2]) # <<>>
    /\ all_data[1]["Name"] # all_data[2]["Name"]

\* C6: fail-soft page fetch.  A resolver whose page fetch fails returns "N/A"
\* and raises nothing; the batch it belongs to leaves the gather only through
\* the merge, with every resolver finished and every result in its record.
FetchFails(link) == link \notin Links \/ ~pages[link].ok

FailSoftState ==
    /\ \A i \in 1..Len(tasks) :
         (tasks[i].status = "done" /\ FetchFails(tasks[i].link)) =>
            /\ ~tasks[i].raised
            /\ tasks[i].result = NA
            /\ tasks[i].link \in warn_log
            /\ tasks[i].result = extract_details_from_html(EmptyStr, DefaultCharLimit)
    /\ \A k \in 1..Len(responses) :
         (responses[k].ok /\ ParsedCount(RespEntries(k)) = Len(RespEntries(k)))
            => ~Errored(place_types[k])

FailSoftStep ==
    pc = "gather" =>
       \/ pc' = "gather"
       \/ /\ pc' = "sleep"
          /\ \A i \in 1..Len(tasks) :
               /\ tasks[i].status = "done"
               /\ all_data'[Len(all_data) - Len(tasks) + i]["Details"] = tasks[i].result

FailSoft == []FailSoftState /\ [][FailSoftStep]_vars

\* a batch merged with one page fetch failed and another succeeded
FailSoftWitness ==
    /\ pc = "sleep"
    /\ \E i, j \in 1..Len(tasks) :
         /\ FetchFails(tasks[i].link)
         /\ ~FetchFails(tasks[j].link)
         /\ all_data[Len(all_data) - Len(tasks) + i]["Details"] = NA
         /\ all_data[Len(all_data) - Len(tasks) + j]["Details"] # NA

\* C7 as stated: for every markup, the empty one included, and every character
\* limit, the extractor's output is no longer than the limit (read here for the
\* limits that are not negative, which is all it takes to refute it).
SnippetBoundEveryInput ==
    (pc = "extracted" /\ xLimit >= 0) => Len(xOut) <= xLimit

\* C7, amended: for every markup that is not empty and every limit that is not
\* negative, the output is no longer than the limit; for the empty markup the
\* output is "N/A", three characters long whatever the limit.
SnippetBound ==
    pc = "extracted" =>
       /\ (xHtml # EmptyStr /\ xLimit >= 0) => Len(xOut) <= xLimit
       /\ xHtml = EmptyStr => xOut = NA
       /\ (xHtml # EmptyStr /\ xLimit >= Len(xHtml)) => xOut = Join(StrippedStrings(xHtml))

\* a text longer than the limit, cut to the limit
SnippetBoundWitness ==
    /\ pc = "extracted"
    /\ xLimit >= 1
    /\ Len(Join(StrippedStrings(xHtml))) > xLimit
    /\ Len(xOut) = xLimit

\* C8: every exported record is resolved.  No record of the returned list
\* still carries None as its Details.
AllResolved ==
    Returned => \A i \in 1..Len(all_data) : all_data[i]["Details"] # PyNone

\* C9: the output file is written at most once, after fetch_places_async has
\* returned, and exactly when the returned list is not empty; it then holds one
\* row per record, in list order, under the seven columns.
ExportOnce ==
    /\ file_writes \in {0, 1}
    /\ file_writes = 1 => pc = "done"
    /\ file_writes = 0 => file_rows = <<>>
    /\ pc = "done" => (file_writes = 1 <=> all_data # <<>>)
    /\ file_writes = 1 =>
         /\ Len(file_rows) = Len(all_data)
         /\ \A i \in 1..Len(file_rows) :
              /\ DOMAIN file_rows[i] = Columns
              /\ file_rows[i] = all_data[i]

\* a file written with the rows of two place types
ExportOnceWitness ==
    /\ pc = "done"
    /\ file_writes = 1
    /\ Len(file_rows) >= 2
    /\ file_rows[1]["Place Type"] # file_rows[Len(file_rows)]["Place Type"]

\* a run that ends with nothing to save and no file
ExportNothingReached ==
    pc = "done" /\ all_data = <<>> /\ file_writes = 0 /\ Len(place_types) >= 1

\* C10 as stated: the page fetches in flight all belong to the batch of one
\* place type, and no search call or page fetch of the next place type starts
\* while a resolver of this one is pending or before this batch's merge and
\* delay are over.
InFlightOneBatch ==
    \A i \in 1..Len(tasks) :
        tasks[i].status = "pending" =>
           /\ pc = "gather"
           /\ tasks[i].place = place
           /\ Len(api_calls) = idx

SequentialEveryBatch ==
    /\ InFlightOneBatch
    /\ \A k \in 1..(Len(api_calls) - 1) :
         api_calls[k] \in merged /\ api_calls[k] \in slept

\* C10, amended: the page fetches in flight all belong to the batch of one
\* place type; no search call or page fetch of the next place type starts
\* while a resolver of this one is pending; and when this place type did not
\* end in the except handler, none starts before its merge and delay are over.
SequentialBatches ==
    /\ InFlightOneBatch
    /\ pc \in {"loop", "search", "returned", "done"} =>
         \A i \in 1..Len(tasks) : tasks[i].status # "pending"
    /\ \A k \in 1..(Len(api_calls) - 1) :
         ~Errored(api_calls[k]) => api_calls[k] \in merged /\ api_calls[k] \in slept
    /\ \A i \in 1..Len(all_data) :
         (all_data[i]["Place Type"] # place_types[idx] /\ pc = "gather")
            => \/ Errored(all_data[i]["Place Type"])
               \/ all_data[i]["Place Type"] \in slept

\* the second batch's fetches in flight, the first batch merged and slept on
SequentialBatchesWitness ==
    /\ pc = "gather"
    /\ idx = 2
    /\ Len(tasks) >= 2
    /\ \A i \in 1..Len(tasks) : tasks[i].status = "pending"
    /\ place_types[1] \in slept
    /\ RecordsOf(place_types[1]) # <<>>

\* C11: Details is written once.  A record is created with Details None; a
\* step changes a record only by the merge of its own batch, which sets the
\* Details of the last N records of the list (N the number of resolvers) and of
\* no other; a record whose Details is set never changes again; the merge
\* of an empty batch changes nothing.
WriteOnceStep ==
    /\ Len(all_data') >= Len(all_data)
    /\ \A i \in (Len(all_data) + 1)..Len(all_data') : all_data'[i]["Details"] = PyNone
    /\ \A i \in 1..Len(all_data) :
         /\ all_data[i]["Details"] # PyNone => all_data'[i] = all_data[i]
         /\ all_data'[i] # all_data[i] =>
              /\ pc = "gather" /\ pc' = "sleep"
              /\ i > Len(all_data) - Len(tasks)
              /\ all_data[i]["Place Type"] = place
              /\ all_data'[i]["Details"] # PyNone
              /\ all_data'[i] = [all_data[i] EXCEPT !["Details"] = all_data'[i]["Details"]]
    /\ (pc = "gather" /\ pc' = "sleep") =>
         /\ Len(all_data') = Len(all_data)
         /\ \A i \in 1..Len(all_data) :
              i > Len(all_data) - Len(tasks) => all_data[i]["Details"] = PyNone
         /\ tasks = <<>> => all_data' = all_data

WriteOnce == [][WriteOnceStep]_vars

\* the second batch merged behind a first batch that was merged before it
WriteOnceWitness ==
    /\ pc = "sleep"
    /\ idx = 2
    /\ tasks # <<>>
    /\ place_types[1] \in merged
    /\ RecordsOf(place_types[1]) # <<>>
    /\ \A i \in 1..Len(all_data) : all_data[i]["Details"] # PyNone

\* an empty batch merged behind records an earlier place type left unresolved
WriteOnceEmptyReached ==
    /\ pc = "sleep"
    /\ tasks = <<>>
    /\ \E i \in 1..Len(all_data) : all_data[i]["Details"] = PyNone

\* C12: the back-index merge refines the per-batch merge.  The returned list
\* equals the output of a reference pipeline that builds each batch in a
\* private list, merges the details into it by position, and appends the
\* batch to the output only when the batch did not fail.
RefFailed(k) ==
    ~responses[k].ok \/ ParsedCount(RespEntries(k)) < Len(RespEntries(k))

RefBatch(k) ==
    LET entries == RespEntries(k)
        private == [i \in 1..Len(entries) |->
                      MakeRecord(CITY, place_types[k], entries[i].items, 0)]
        details == [i \in 1..Len(entries) |-> ExpectedDetails(private[i]["Link"])]
    IN  [i \in 1..Len(entries) |-> [private[i] EXCEPT !["Details"] = details[i]]]

RECURSIVE RefOutput(_)
RefOutput(k) ==
    IF k = 0 THEN <<>>
    ELSE RefOutput(k - 1) \o (IF RefFailed(k) THEN <<>> ELSE RefBatch(k))

BackIndexRefines ==
    Returned =>
       /\ Len(all_data) = Len(RefOutput(Len(responses)))
       /\ \A i \in 1..Len(all_data) :
            Content(all_data[i]) = Content(RefOutput(Len(responses))[i])

\* C13: fan-out before fan-in.  While the results of a batch are awaited, and
\* so before any is merged, all the records of the batch exist, unresolved, and
\* one resolver has been launched for each of them, those with the link ""
\* included; the resolvers of a batch are as many as its records.
FanOutFirst ==
    /\ pc = "gather" =>
         LET n == Len(RespEntries(idx))
         IN  /\ Len(tasks) = n
             /\ Len(RecordsOf(place)) = n
             /\ Len(all_data) >= n
             /\ \A i \in 1..Len(tasks) :
                  /\ tasks[i].status \in {"pending", "done"}
                  /\ tasks[i].place = place
                  /\ i <= n => /\ all_data[Len(all_data) - n + i]["Link"] = tasks[i].link
                               /\ all_data[Len(all_data) - n + i]["Details"] = PyNone
                               /\ all_data[Len(all_data) - n + i]["Place Type"] = place
    /\ (idx >= 1 /\ Len(responses) = idx /\ responses[idx].ok) =>
         /\ Len(tasks) = Len(RecordsOf(place))
         /\ Len(tasks) = ParsedCount(RespEntries(idx))

\* one resolver of a batch finished, another still awaited, one of them for ""
FanOutFirstWitness ==
    /\ pc = "gather"
    /\ \E i, j, k \in 1..Len(tasks) :
         /\ tasks[i].status = "done"
         /\ tasks[j].status = "pending"
         /\ tasks[k].link = ""

\* C14: no retry.  The search API is called once for each entry of
\* place_types, in order, and answered once; every resolver makes one GET of
\* its record's page and no more, whether the GET fails or not, so the GETs
\* made never outnumber the records, and a record whose batch failed gets none.
NumResolved == Cardinality({i \in 1..Len(all_data) : all_data[i]["Details"] # PyNone})

NoRetry ==
    /\ api_calls = SubSeq(place_types, 1, idx)
    /\ Len(responses) = (IF pc = "search" THEN idx - 1 ELSE idx)
    /\ Returned => api_calls = place_types /\ Len(responses) = Len(place_types)
    /\ \A i \in 1..Len(tasks) :
         /\ tasks[i].gets <= 1
         /\ tasks[i].status = "done" <=> tasks[i].gets = 1
    /\ page_gets <= Len(all_data)
    /\ page_gets = NumResolved + (IF pc = "gather" THEN NumDone(tasks) ELSE 0)

\* a run over with a failed search call and a failed page fetch behind it
NoRetryWitness ==
    /\ pc = "returned"
    /\ Len(place_types) = 2
    /\ ~responses[1].ok
    /\ \E i \in 1..Len(tasks) : tasks[i].status = "done" /\ tasks[i].link \in warn_log
    /\ page_gets >= 2

\* Termination as a property of the fair runs: with every HTTP operation and
\* sleep coming to an end, every run takes all its place types, returns from
\* fetch_places_async with the session closed, runs the export step and is over.
Finished ==
    /\ pc = "done"
    /\ idx = Len(place_types)
    /\ Len(responses) = Len(place_types)
    /\ ~session_open

Termination == <>Finished

\* a run over after a failed search call and a failed page fetch
TerminationWitness ==
    /\ Finished
    /\ Len(place_types) = 2
    /\ ~responses[1].ok
    /\ warn_log # {}
    /\ file_writes = 1

\* C15: termination.  A run that is not over always has a step to take, a
\* failed search call or page fetch included, and every step brings it nearer
\* to its end, by a measure that counts the steps a run can still take and
\* is zero exactly when the export step is done; so with every pending
\* operation coming to an end (Fairness) every run finishes all its batches,
\* returns, exports and exits.
StepsLeft ==
    LET perPlace == MaxRecords + 4
        later == perPlace * (Len(place_types) - idx)
        pending == Cardinality({i \in 1..Len(tasks) : tasks[i].status = "pending"})
    IN  CASE pc = "loop" -> 2 + later
          [] pc = "search" -> 2 + later + perPlace - 1
          [] pc = "gather" -> 2 + later + 2 + pending
          [] pc = "sleep" -> 2 + later + 1
          [] pc = "returned" -> 1
          [] OTHER -> 0

NeverStuck ==
    /\ pc = "loop" => ENABLED NextPlace \/ ENABLED Return
    /\ pc = "search" => ENABLED SearchFail
    /\ pc = "gather" =>
         \/ ENABLED GatherDone
         \/ \E i \in 1..Len(tasks) :      \* the guard of FetchComplete(i)
               tasks[i].status = "pending" /\ extract_place_details(tasks[i].link).returns
    /\ pc = "sleep" => ENABLED SleepDone
    /\ pc = "returned" => ENABLED save_to_excel
    /\ pc \in {"loop", "search", "gather", "sleep", "returned", "done"}

TerminationBySteps ==
    /\ [](NeverStuck /\ StepsLeft >= 0 /\ (StepsLeft = 0 <=> Finished))
    /\ [][StepsLeft' < StepsLeft]_vars

\* C16: where the delay is taken.  The delay runs once after the merge of
\* every place type that did not end in the except handler, a batch without
\* results and the last place type included, and never for one that did; the
\* clock has advanced by one delay for each place type that did not fail, and
\* the search call after a failed one starts with no delay in between.
Handled(k) == k < idx \/ (k = idx /\ pc \in {"loop", "returned", "done"})

DelayPlacement ==
    /\ \A p \in slept : ~Errored(p) /\ p \in merged
    /\ \A k \in 1..idx :
         Handled(k) => (place_types[k] \in slept <=> ~Errored(place_types[k]))
    /\ now = DELAY_BETWEEN_QUERIES
               * Cardinality({k \in 1..idx : Handled(k) /\ ~Errored(place_types[k])})
    /\ (pc = "search" /\ idx > 1 /\ Errored(place_types[idx - 1])) =>
         /\ place_types[idx - 1] \notin slept
         /\ place_types[idx - 1] \notin merged

\* a failed place type, then a last one without results that was slept on
DelayPlacementWitness ==
    /\ pc = "returned"
    /\ Len(place_types) = 2
    /\ Errored(place_types[1])
    /\ RespEntries(2) = <<>>
    /\ place_types[2] \in slept
    /\ now = DELAY_BETWEEN_QUERIES

\* the search call after a failed one, begun with the clock where it stood
DelayPlacementNoDelayReached ==
    /\ pc = "search"
    /\ idx = 2
    /\ Errored(place_types[1])
    /\ now = 0

\* C17: no work outlives the session.  A search call or a page fetch is in
\* flight only while the session is open; once it is closed and
\* fetch_places_async has returned, no resolver is pending, every resolver that
\* ran has finished with its result merged into its record, and every GET made
\* stands behind a resolved record.
NoWorkAfterClose ==
    /\ (pc = "search" \/ \E i \in 1..Len(tasks) : tasks[i].status = "pending")
          => session_open
    /\ session_open <=> pc \in {"loop", "search", "gather", "sleep"}
    /\ ~session_open =>
         /\ \A i \in 1..Len(tasks) :
              /\ tasks[i].status \in {"done", "created"}
              /\ tasks[i].status = "done" =>
                   /\ tasks[i].place \in merged
                   /\ all_data[Len(all_data) - Len(tasks) + i]["Details"] = tasks[i].result
         /\ page_gets = NumResolved
         /\ \A i \in 1..Len(all_data) :
              all_data[i]["Place Type"] \in merged => all_data[i]["Details"] # PyNone

\* the session closed behind a batch of two resolvers, one of which failed
NoWorkAfterCloseWitness ==
    /\ pc = "returned"
    /\ ~session_open
    /\ Len(tasks) >= 2
    /\ \A i \in 1..Len(tasks) : tasks[i].status = "done"
    /\ warn_log # {}

====
